---- MODULE Spec2Model ----
(***************************************************************************)
(* Model of main.py: the beam-report pipeline.                             *)
(*                                                                         *)
(*   pick_columns        column-role detection over the column names       *)
(*   sfd_plot, bmd_plot  sorted coordinate series and axis bounds          *)
(*   run_pdflatex_twice  two compiler passes with failure capture          *)
(*   build_report, main  the top-level sequence of stages                  *)
(*                                                                         *)
(* Text is modelled as sequences of one-character strings, so that         *)
(* lower(), strip(), `in` (substring) and equality are computed as Python  *)
(* computes them.  Compiler output streams are run-length encoded          *)
(* (sequences of [ch, n] runs), so that streams longer than the 4500       *)
(* character tail are representable.  Numbers of the dataset are integers; *)
(* the axis quantities derived from them are kept in hundredths, so that   *)
(* 0.12 * s is the exact integer 12 * s.                                   *)
(***************************************************************************)
EXTENDS Integers, Sequences, FiniteSets, TLC

VARIABLES pc, df, cols, L, sfd, bmd, tex, run_no, calls, p, logFile, raised, printed

vars == <<pc, df, cols, L, sfd, bmd, tex, run_no, calls, p, logFile, raised, printed>>

(***************************************************************************)
(* Bounds of the model.                                                    *)
(***************************************************************************)
MaxCols == 3
MaxRows == 3
MaxOutRuns == 2

(***************************************************************************)
(* Program constants.                                                      *)
(***************************************************************************)
TailChars == 4500
PadMin == 500
PadFactor == 12

None == <<>>
Some(v) == <<v>>

Range(s) == {s[i] : i \in 1..Len(s)}

(***************************************************************************)
(* Python str operations on character sequences.                           *)
(***************************************************************************)
UpperChars == <<"A","B","C","D","E","F","G","H","I","J","K","L","M",
                "N","O","P","Q","R","S","T","U","V","W","X","Y","Z">>
LowerChars == <<"a","b","c","d","e","f","g","h","i","j","k","l","m",
                "n","o","p","q","r","s","t","u","v","w","x","y","z">>

Whitespace == {" ", "\n"}

lower_char(ch) ==
    IF \E i \in 1..Len(UpperChars) : UpperChars[i] = ch
    THEN LowerChars[CHOOSE i \in 1..Len(UpperChars) : UpperChars[i] = ch]
    ELSE ch

lower(s) == [i \in 1..Len(s) |-> lower_char(s[i])]

\* sub in s
contains(s, sub) ==
    \E i \in 0..(Len(s) - Len(sub)) : SubSeq(s, i + 1, i + Len(sub)) = sub

strip(s) ==
    IF \A i \in 1..Len(s) : s[i] \in Whitespace
    THEN <<>>
    ELSE LET a == CHOOSE i \in 1..Len(s) :
                      s[i] \notin Whitespace /\ \A j \in 1..(i - 1) : s[j] \in Whitespace
             b == CHOOSE i \in 1..Len(s) :
                      s[i] \notin Whitespace /\ \A j \in (i + 1)..Len(s) : s[j] \in Whitespace
         IN SubSeq(s, a, b)

(***************************************************************************)
(* pick_columns (main.py 30-49).                                           *)
(***************************************************************************)
kw_position == <<"p","o","s","i","t","i","o","n">>
kw_shear    == <<"s","h","e","a","r">>
kw_moment   == <<"m","o","m","e","n","t">>
kw_x        == <<"x">>
kw_distance == <<"d","i","s","t","a","n","c","e">>
kw_dist     == <<"d","i","s","t">>
kw_length   == <<"l","e","n","g","t","h">>

\* line 37: "position" in cl or cl in ["x", "distance", "dist", "length"]
mut_is_position_substring(cl) ==
    \E kw \in {kw_position, kw_x, kw_distance, kw_dist, kw_length} : contains(cl, kw)

is_position(cl) ==
    contains(cl, kw_position) \/ cl \in {kw_x, kw_distance, kw_dist, kw_length}

\* line 39: "shear" in cl
is_shear(cl) == contains(cl, kw_shear)

\* line 41: "moment" in cl
is_moment(cl) == contains(cl, kw_moment)

\* line 32: df.columns = df.columns.str.strip()
strip_columns(columns) == [i \in 1..Len(columns) |-> strip(columns[i])]

\* One iteration of the loop of lines 35-42 on column c; st = [pos, shear, moment].
mut_pick_step_last_wins(st, c) ==
    LET cl == lower(c)
    IN [pos    |-> IF is_position(cl) THEN Some(c) ELSE st.pos,
        shear  |-> IF is_shear(cl) THEN Some(c) ELSE st.shear,
        moment |-> IF is_moment(cl) THEN Some(c) ELSE st.moment]

mut_pick_step_exclusive(st, c) ==
    LET cl == lower(c)
    IN IF st.pos = None /\ is_position(cl) THEN [st EXCEPT !.pos = Some(c)]
       ELSE IF st.shear = None /\ is_shear(cl) THEN [st EXCEPT !.shear = Some(c)]
       ELSE IF st.moment = None /\ is_moment(cl) THEN [st EXCEPT !.moment = Some(c)]
       ELSE st

pick_step(st, c) ==
    LET cl == lower(c)
    IN [pos    |-> IF st.pos = None /\ is_position(cl) THEN Some(c) ELSE st.pos,
        shear  |-> IF st.shear = None /\ is_shear(cl) THEN Some(c) ELSE st.shear,
        moment |-> IF st.moment = None /\ is_moment(cl) THEN Some(c) ELSE st.moment]

RECURSIVE pick_loop(_, _, _)
pick_loop(columns, i, st) ==
    IF i > Len(columns) THEN st
    ELSE pick_loop(columns, i + 1, pick_step(st, columns[i]))

\* Python truthiness of pos/shear/moment: None and "" are falsy.
truthy(opt) == opt # None /\ opt[1] # <<>>

\* line 44: not all([pos, shear, moment])
detect_failed(st) == ~(truthy(st.pos) /\ truthy(st.shear) /\ truthy(st.moment))

\* The result: the three names, or the ValueError naming the columns found.
pick_columns(columns) ==
    LET stripped == strip_columns(columns)
        st == pick_loop(stripped, 1, [pos |-> None, shear |-> None, moment |-> None])
    IN IF detect_failed(st)
       THEN [ok |-> FALSE, error |-> "ValueError", found |-> stripped]
       ELSE [ok |-> TRUE, pos |-> st.pos[1], shear |-> st.shear[1], moment |-> st.moment[1]]

(***************************************************************************)
(* The data frame: column names and rows of cells, positionally aligned.   *)
(***************************************************************************)
DataFrame(columns, rows) == [columns |-> columns, rows |-> rows]

\* r[c]: the cell of row r under the column named c.
cell(d, r, c) == r[CHOOSE i \in 1..Len(d.columns) : d.columns[i] = c]

Abs(n) == IF n < 0 THEN -n ELSE n

\* Python's max(a, b) and min(a, b): the first argument unless the second beats it.
py_max(a, b) == IF b > a THEN b ELSE a
py_min(a, b) == IF b < a THEN b ELSE a

\* df[c].min() and df[c].max() of a frame with at least one row.
col_min(d, rows, c) ==
    CHOOSE m \in {cell(d, rows[i], c) : i \in 1..Len(rows)} :
        \A i \in 1..Len(rows) : m <= cell(d, rows[i], c)

col_max(d, rows, c) ==
    CHOOSE m \in {cell(d, rows[i], c) : i \in 1..Len(rows)} :
        \A i \in 1..Len(rows) : m >= cell(d, rows[i], c)

RowOrders(n) == {f \in [1..n -> 1..n] : \A i, j \in 1..n : i # j => f[i] # f[j]}

\* df.sort_values(x_col).reset_index(drop=True): the default sort is not stable,
\* so every ordering of the rows with non-decreasing x_col is a possible result.
mut_sort_values_unsorted(d, x_col) == {d.rows}

sort_values(d, x_col) ==
    LET n == Len(d.rows)
    IN {[i \in 1..n |-> d.rows[f[i]]] :
          f \in {g \in RowOrders(n) :
                   \A i \in 1..(n - 1) :
                       cell(d, d.rows[g[i]], x_col) <= cell(d, d.rows[g[i + 1]], x_col)}}

\* lines 84-86 and 128-130: one (x, y) pair per row of sdf, in sdf's order.
coordinates(d, sdf, x_col, y_col) ==
    [i \in 1..Len(sdf) |-> <<cell(d, sdf[i], x_col), cell(d, sdf[i], y_col)>>]

(***************************************************************************)
(* sfd_plot (main.py 76-117).  pad, ymin and ymax are in hundredths.       *)
(***************************************************************************)
\* line 81: pad = max(5.0, 0.12 * (abs(vmin) + abs(vmax)))
sfd_pad(vmin, vmax) == py_max(PadMin, PadFactor * (Abs(vmin) + Abs(vmax)))

sfd_plot(d, x_col, v_col, Lv) ==
    {LET vmin == col_min(d, sdf, v_col)
         vmax == col_max(d, sdf, v_col)
         pad  == sfd_pad(vmin, vmax)
     IN [coords |-> coordinates(d, sdf, x_col, v_col),
         pad |-> pad,
         ymin |-> 100 * vmin - pad,
         ymax |-> 100 * vmax + pad,
         xmax |-> Lv,
         zero_line |-> TRUE] : sdf \in sort_values(d, x_col)}

(***************************************************************************)
(* bmd_plot (main.py 120-160).                                             *)
(***************************************************************************)
\* line 125: pad = max(5.0, 0.12 * (abs(mmin) + abs(mmax)))
bmd_pad(mmin, mmax) == py_max(PadMin, PadFactor * (Abs(mmin) + Abs(mmax)))

\* line 126: ymin = min(0.0, mmin - pad)
mut_bmd_ymin_no_zero(mmin, pad) == 100 * mmin - pad

bmd_ymin(mmin, pad) == py_min(0, 100 * mmin - pad)

\* line 126: ymax = mmax + pad
bmd_ymax(mmax, pad) == 100 * mmax + pad

bmd_plot(d, x_col, m_col, Lv) ==
    {LET mmin == col_min(d, sdf, m_col)
         mmax == col_max(d, sdf, m_col)
         pad  == bmd_pad(mmin, mmax)
     IN [coords |-> coordinates(d, sdf, x_col, m_col),
         pad |-> pad,
         ymin |-> bmd_ymin(mmin, pad),
         ymax |-> bmd_ymax(mmax, pad),
         xmax |-> Lv,
         zero_line |-> FALSE] : sdf \in sort_values(d, x_col)}

(***************************************************************************)
(* Compiler output streams, run-length encoded: <<[ch, n], ...>> is the    *)
(* text made of n copies of ch for each run in turn.                       *)
(***************************************************************************)
Run(ch, n) == [ch |-> ch, n |-> n]

RECURSIVE rle_len(_)
rle_len(s) == IF s = <<>> THEN 0 ELSE s[1].n + rle_len(Tail(s))

\* The canonical encoding: no empty run, no two adjacent runs of one character.
RECURSIVE rle_norm(_)
rle_norm(s) ==
    IF s = <<>> THEN <<>>
    ELSE IF s[1].n = 0 THEN rle_norm(Tail(s))
    ELSE LET rest == rle_norm(Tail(s))
         IN IF rest # <<>> /\ rest[1].ch = s[1].ch
            THEN <<Run(s[1].ch, s[1].n + rest[1].n)>> \o Tail(rest)
            ELSE <<s[1]>> \o rest

\* s[-k:] for k > 0: the last k characters, all of s when it is shorter.
RECURSIVE last_chars(_, _)
last_chars(s, k) ==
    IF s = <<>> \/ k = 0 THEN <<>>
    ELSE LET last == s[Len(s)]
         IN IF last.n >= k THEN <<Run(last.ch, k)>>
            ELSE last_chars(SubSeq(s, 1, Len(s) - 1), k - last.n) \o <<last>>

\* str.strip() of an encoded text: whole runs of whitespace go at both ends.
RECURSIVE rle_lstrip(_)
rle_lstrip(s) ==
    IF s # <<>> /\ s[1].ch \in Whitespace THEN rle_lstrip(Tail(s)) ELSE s

RECURSIVE rle_rstrip(_)
rle_rstrip(s) ==
    IF s # <<>> /\ s[Len(s)].ch \in Whitespace
    THEN rle_rstrip(SubSeq(s, 1, Len(s) - 1)) ELSE s

rle_strip(s) == rle_norm(rle_rstrip(rle_lstrip(s)))

(***************************************************************************)
(* run_pdflatex_twice (main.py 52-73).                                     *)
(***************************************************************************)
ERROR_LOG_FILE == "compile_error_tail.txt"

\* line 64: tail = (p.stdout[-4500:] + "\n" + p.stderr[-4500:]).strip()
mut_log_tail_unstripped(proc) ==
    rle_norm(last_chars(proc.stdout, TailChars) \o <<Run("\n", 1)>>
             \o last_chars(proc.stderr, TailChars))

log_tail(proc) ==
    rle_strip(last_chars(proc.stdout, TailChars) \o <<Run("\n", 1)>>
              \o last_chars(proc.stderr, TailChars))

\* lines 65-69: the text written: f"PDLATEX FAILED ON RUN {run_no}\n\n{tail}\n"
log_text(n, tail) ==
    [header |-> <<"PDLATEX FAILED ON RUN", n>>,
     body |-> rle_norm(<<Run("\n", 2)>> \o tail \o <<Run("\n", 1)>>)]

\* lines 70-73: RuntimeError(f"pdflatex failed (run {run_no}). Open '{ERROR_LOG_FILE}' ...")
compile_error(n) == [type |-> "RuntimeError", run_no |-> n, file |-> ERROR_LOG_FILE]

\* An exception of the library or the operating system, raised by the named call.
other_error(type) == [type |-> type, run_no |-> 0, file |-> ""]

\* line 61: for run_no in (1, 2)
mut_Passes_three == <<1, 2, 3>>

Passes == <<1, 2>>

\* line 63: if p.returncode != 0
mut_returncode_ignored(proc) == FALSE

returncode_failed(proc) == proc.returncode # 0

OUTPUT_BASENAME == "Simply_Supported_Beam_Analysis_Soniya_Kuchekar"

(***************************************************************************)
(* Inputs.                                                                 *)
(***************************************************************************)
n_Position == <<"P","o","s","i","t","i","o","n"," ","(","m",")">>
n_DistM    == <<"D","i","s","t"," ","(","m",")">>
n_Shear    == <<"S","h","e","a","r"," ","F","o","r","c","e"," ","(","k","N",")">>
n_BM       == <<"B","M","(","k","N","m",")">>
n_Moment   == <<"M","O","M","E","N","T">>
n_Both     == <<"s","h","e","a","r","/","m","o","m","e","n","t">>
n_X        == <<" ","X"," ">>
n_Dist     == <<"d","i","s","t">>
n_Length   == <<"L","e","n","g","t","h">>
n_Distance == <<"D","I","S","T","A","N","C","E"," ">>
n_XX       == <<"x","x">>
n_A        == <<"A">>
n_B        == <<"B">>
n_C        == <<"C">>
n_Empty    == <<>>

NamePool == {n_Position, n_DistM, n_Shear, n_BM, n_Moment, n_Both, n_X, n_Dist,
             n_Length, n_Distance, n_XX, n_A, n_B, n_C, n_Empty}

SeqsUpTo(S, n) == UNION {[1..k -> S] : k \in 0..n}

\* Column-name lists for pick_columns alone.
ColumnLists == SeqsUpTo(NamePool, MaxCols)

\* Frames for the plots alone: two columns, one to MaxRows rows.
c_x == <<"x">>
c_y == <<"y">>
PlotXs == {0, 1}
PlotYs == {-6, 0, 50}
PlotFrames ==
    {DataFrame(<<c_x, c_y>>, rows) :
        rows \in SeqsUpTo({<<x, y>> : x \in PlotXs, y \in PlotYs}, MaxRows) \ {<<>>}}

\* Frames read by the whole program.
MainFrames ==
    {DataFrame(<<n_Position, n_Shear, n_Moment>>, <<<<0, 0, 0>>, <<2, 10, 20>>, <<4, -10, 0>>>>),
     DataFrame(<<n_Moment, n_Shear, n_X>>, <<<<-20, 7, 2>>, <<-30, 7, 2>>, <<-6, 0, 0>>>>),
     DataFrame(<<n_X, n_Both>>, <<<<3, -50>>>>),
     DataFrame(<<n_DistM, n_Shear, n_BM>>, <<<<0, 0, 0>>>>),
     DataFrame(<<n_A, n_B, n_C>>, <<<<0, 0, 0>>>>)}

StreamChars == {"a", " "}
RunLengths == {1, TailChars}
Streams(n) == SeqsUpTo({Run(ch, k) : ch \in StreamChars, k \in RunLengths}, n)
ErrStreams ==
    {<<>>, <<Run("a", 1)>>, <<Run(" ", 1)>>, <<Run("a", 1), Run(" ", 1)>>,
     <<Run(" ", 1), Run("a", TailChars)>>}
ReturnCodes == {0, 1}

(***************************************************************************)
(* The program: main (346-349), build_report (163-343) and                 *)
(* run_pdflatex_twice (52-73), one action per step.                        *)
(***************************************************************************)
Blank ==
    /\ df = None /\ cols = None /\ L = None /\ sfd = None /\ bmd = None
    /\ tex = None /\ run_no = 0 /\ calls = <<>> /\ p = None
    /\ logFile = None /\ raised = None /\ printed = FALSE

Init == pc = "read_excel" /\ Blank

\* line 164: df = pd.read_excel(INPUT_EXCEL)
ReadExcel ==
    /\ pc = "read_excel"
    /\ \E d \in MainFrames : df' = Some(d)
    /\ pc' = "pick_columns"
    /\ UNCHANGED <<cols, L, sfd, bmd, tex, run_no, calls, p, logFile, raised, printed>>

ReadExcelFails ==
    /\ pc = "read_excel"
    /\ raised' = Some(other_error("FileNotFoundError"))
    /\ pc' = "failed"
    /\ UNCHANGED <<df, cols, L, sfd, bmd, tex, run_no, calls, p, logFile, printed>>

\* line 165: x_col, v_col, m_col = pick_columns(df); the frame keeps the stripped names.
PickColumns ==
    /\ pc = "pick_columns"
    /\ LET r == pick_columns(df[1].columns)
       IN /\ cols' = Some(r)
          /\ df' = Some(DataFrame(strip_columns(df[1].columns), df[1].rows))
          /\ IF r.ok
             THEN pc' = "beam_length" /\ UNCHANGED raised
             ELSE pc' = "failed" /\ raised' = Some(other_error("ValueError"))
    /\ UNCHANGED <<L, sfd, bmd, tex, run_no, calls, p, logFile, printed>>

\* line 166: L = float(df[x_col].max())
BeamLength ==
    /\ pc = "beam_length"
    /\ L' = Some(col_max(df[1], df[1].rows, cols[1].pos))
    /\ pc' = "sfd_plot"
    /\ UNCHANGED <<df, cols, sfd, bmd, tex, run_no, calls, p, logFile, raised, printed>>

\* line 330: doc.append(sfd_plot(df, x_col, v_col, L))
SfdPlot ==
    /\ pc = "sfd_plot"
    /\ \E r \in sfd_plot(df[1], cols[1].pos, cols[1].shear, L[1]) : sfd' = Some(r)
    /\ pc' = "bmd_plot"
    /\ UNCHANGED <<df, cols, L, bmd, tex, run_no, calls, p, logFile, raised, printed>>

\* line 337: doc.append(bmd_plot(df, x_col, m_col, L))
BmdPlot ==
    /\ pc = "bmd_plot"
    /\ \E r \in bmd_plot(df[1], cols[1].pos, cols[1].moment, L[1]) : bmd' = Some(r)
    /\ pc' = "generate_tex"
    /\ UNCHANGED <<df, cols, L, sfd, tex, run_no, calls, p, logFile, raised, printed>>

\* lines 341-343: doc.generate_tex(str(base)); back in main, line 348 enters the loop.
GenerateTex ==
    /\ pc = "generate_tex"
    /\ tex' = Some([sfd |-> sfd[1], bmd |-> bmd[1]])
    /\ run_no' = Passes[1]
    /\ pc' = "pdflatex"
    /\ UNCHANGED <<df, cols, L, sfd, bmd, calls, p, logFile, raised, printed>>

GenerateTexFails ==
    /\ pc = "generate_tex"
    /\ raised' = Some(other_error("OSError"))
    /\ pc' = "failed"
    /\ UNCHANGED <<df, cols, L, sfd, bmd, tex, run_no, calls, p, logFile, printed>>

\* line 62: p = subprocess.run(cmd, cwd=workdir, capture_output=True, text=True)
Pdflatex ==
    /\ pc = "pdflatex"
    /\ \E rc \in ReturnCodes, out \in Streams(MaxOutRuns), err \in ErrStreams :
          /\ p' = Some([returncode |-> rc, stdout |-> out, stderr |-> err])
          /\ calls' = Append(calls, [run_no |-> run_no, returncode |-> rc])
    /\ pc' = "returncode"
    /\ UNCHANGED <<df, cols, L, sfd, bmd, tex, run_no, logFile, raised, printed>>

\* line 62, the compiler cannot be started
PdflatexNotStarted ==
    /\ pc = "pdflatex"
    /\ raised' = Some(other_error("FileNotFoundError"))
    /\ pc' = "failed"
    /\ UNCHANGED <<df, cols, L, sfd, bmd, tex, run_no, calls, p, logFile, printed>>

\* line 63, and line 61 for the next pass or the return to main
CheckReturncode ==
    /\ pc = "returncode"
    /\ IF returncode_failed(p[1])
       THEN pc' = "write_log" /\ UNCHANGED run_no
       ELSE IF \E i \in 1..(Len(Passes) - 1) : Passes[i] = run_no
            THEN /\ run_no' = Passes[1 + CHOOSE i \in 1..Len(Passes) : Passes[i] = run_no]
                 /\ pc' = "pdflatex"
            ELSE pc' = "print" /\ UNCHANGED run_no
    /\ UNCHANGED <<df, cols, L, sfd, bmd, tex, calls, p, logFile, raised, printed>>

\* lines 64-69: (workdir / ERROR_LOG_FILE).write_text(...)
WriteLog ==
    /\ pc = "write_log"
    /\ logFile' = Some(log_text(run_no, log_tail(p[1])))
    /\ pc' = "raise"
    /\ UNCHANGED <<df, cols, L, sfd, bmd, tex, run_no, calls, p, raised, printed>>

WriteLogFails ==
    /\ pc = "write_log"
    /\ raised' = Some(other_error("OSError"))
    /\ pc' = "failed"
    /\ UNCHANGED <<df, cols, L, sfd, bmd, tex, run_no, calls, p, logFile, printed>>

\* lines 70-73: raise RuntimeError(...)
Raise ==
    /\ pc = "raise"
    /\ raised' = Some(compile_error(run_no))
    /\ pc' = "failed"
    /\ UNCHANGED <<df, cols, L, sfd, bmd, tex, run_no, calls, p, logFile, printed>>

\* line 349: print(f"PDF created: {OUTPUT_BASENAME}.pdf")
PrintCreated ==
    /\ pc = "print"
    /\ printed' = TRUE
    /\ pc' = "done"
    /\ UNCHANGED <<df, cols, L, sfd, bmd, tex, run_no, calls, p, logFile, raised>>

Next ==
    \/ ReadExcel \/ ReadExcelFails \/ PickColumns \/ BeamLength
    \/ SfdPlot \/ BmdPlot \/ GenerateTex \/ GenerateTexFails
    \/ Pdflatex \/ PdflatexNotStarted \/ CheckReturncode
    \/ WriteLog \/ WriteLogFails \/ Raise \/ PrintCreated

Spec == Init /\ [][Next]_vars

(***************************************************************************)
(* pick_columns alone, on every list of up to MaxCols names of the pool.   *)
(***************************************************************************)
InitColumns ==
    /\ pc = "pick_columns"
    /\ \E columns \in ColumnLists : df = Some(DataFrame(columns, <<>>))
    /\ cols = None /\ L = None /\ sfd = None /\ bmd = None
    /\ tex = None /\ run_no = 0 /\ calls = <<>> /\ p = None
    /\ logFile = None /\ raised = None /\ printed = FALSE

SpecColumns == InitColumns /\ [][PickColumns]_vars

(***************************************************************************)
(* sfd_plot and bmd_plot alone, on every frame of PlotFrames and every     *)
(* choice of the column arguments.                                         *)
(***************************************************************************)
InitPlots ==
    /\ pc = "sfd_plot"
    /\ \E d \in PlotFrames :
          /\ df = Some(d)
          /\ \E x_col \in Range(d.columns), v_col \in Range(d.columns), m_col \in Range(d.columns) :
                /\ cols = Some([ok |-> TRUE, pos |-> x_col, shear |-> v_col, moment |-> m_col])
                /\ L = Some(col_max(d, d.rows, x_col))
    /\ sfd = None /\ bmd = None
    /\ tex = None /\ run_no = 0 /\ calls = <<>> /\ p = None
    /\ logFile = None /\ raised = None /\ printed = FALSE

NextPlots == SfdPlot \/ BmdPlot

SpecPlots == InitPlots /\ [][NextPlots]_vars

(***************************************************************************)
(* Properties of run_pdflatex_twice and main, checked under Spec.          *)
(***************************************************************************)
LogHeader(n) == <<"PDLATEX FAILED ON RUN", n>>

ReturnedNormally == pc \in {"print", "done"}

BothPassesZero ==
    Len(calls) = 2 /\ calls[1].returncode = 0 /\ calls[2].returncode = 0

\* C1: when the first compiler invocation returns non-zero, it stays the only
\* invocation of the run, and the failure log of the run, once written, has the
\* header naming pass 1; the log is on disk by the time the error is raised.
C1_FirstPassFailureStops ==
    (Len(calls) >= 1 /\ calls[1].returncode # 0) =>
        /\ Len(calls) = 1
        /\ run_no = 1
        /\ logFile # None => logFile[1].header = LogHeader(1)
        /\ pc = "raise" => logFile # None

C1_Witness ==
    /\ pc = "failed"
    /\ Len(calls) = 1 /\ calls[1].returncode # 0
    /\ logFile # None /\ logFile[1].header = LogHeader(1)
    /\ raised = Some(compile_error(1))

\* C2: the compiler is invoked at most twice, the i-th invocation being pass i;
\* pass 2 is invoked only after pass 1 returned zero; the function returns
\* normally exactly when two invocations have been made and both returned zero.
C2_ExactlyTwoPasses ==
    /\ Len(calls) <= 2
    /\ \A i \in 1..Len(calls) : calls[i].run_no = i
    /\ Len(calls) = 2 => calls[1].returncode = 0
    /\ ReturnedNormally => BothPassesZero
    /\ (BothPassesZero /\ pc # "returncode") => ReturnedNormally

C2_Witness == pc = "done" /\ BothPassesZero /\ printed

\* t occurs in s as a contiguous piece of text (both in canonical encoding).
rle_occurs(s, t) ==
    \/ t = <<>>
    \/ \E i \in 1..(Len(s) - Len(t) + 1) :
          /\ s[i].ch = t[1].ch /\ s[i].n >= t[1].n
          /\ s[i + Len(t) - 1].ch = t[Len(t)].ch /\ s[i + Len(t) - 1].n >= t[Len(t)].n
          /\ \A k \in 2..(Len(t) - 1) : s[i + k - 1] = t[k]

\* The part of C3 about when the log is written and what the error names:
\* a raised compilation error names the pass whose invocation just returned
\* non-zero and the log file, and the log with that pass in its header is on disk
\* already; a log is on disk only if the last invocation returned non-zero.
C3_LogBeforeError ==
    /\ (raised # None /\ raised[1].type = "RuntimeError") =>
          /\ logFile # None
          /\ calls # <<>> /\ calls[Len(calls)].returncode # 0
          /\ raised[1].run_no = calls[Len(calls)].run_no
          /\ raised[1].file = ERROR_LOG_FILE
          /\ logFile[1].header = LogHeader(raised[1].run_no)
    /\ pc = "raise" => logFile # None
    /\ logFile # None =>
          /\ calls # <<>> /\ calls[Len(calls)].returncode # 0
          /\ logFile[1].header = LogHeader(calls[Len(calls)].run_no)
    /\ BothPassesZero => logFile = None
    /\ (calls # <<>> /\ calls[Len(calls)].returncode # 0 /\ pc = "failed") =>
          \/ raised[1].type = "RuntimeError"
          \/ raised[1].type = "OSError" /\ logFile = None

\* C3 as stated: the log holds, after its header, the last 4500 characters of
\* stdout and the last 4500 characters of stderr.
C3_Original ==
    /\ C3_LogBeforeError
    /\ logFile # None =>
          /\ rle_occurs(logFile[1].body, rle_norm(last_chars(p[1].stdout, TailChars)))
          /\ rle_occurs(logFile[1].body, rle_norm(last_chars(p[1].stderr, TailChars)))

\* C3 as amended: the log holds, after its header and a blank line, the text
\* (last 4500 of stdout) + newline + (last 4500 of stderr) with the whitespace
\* at both of its ends stripped, and then one newline.
C3_LogHoldsStrippedTail ==
    /\ C3_LogBeforeError
    /\ logFile # None =>
          LET joined == rle_norm(last_chars(p[1].stdout, TailChars) \o <<Run("\n", 1)>>
                                 \o last_chars(p[1].stderr, TailChars))
              tail == rle_strip(joined)
          IN /\ logFile[1].body = rle_norm(<<Run("\n", 2)>> \o tail \o <<Run("\n", 1)>>)
             /\ rle_occurs(joined, tail)
             /\ tail # <<>> => (tail[1].ch \notin Whitespace /\ tail[Len(tail)].ch \notin Whitespace)
             /\ rle_len(tail) <= 2 * TailChars + 1

C3_Witness ==
    /\ pc = "failed" /\ run_no = 2
    /\ raised = Some(compile_error(2))
    /\ logFile # None /\ logFile[1].header = LogHeader(2)
    /\ rle_len(p[1].stdout) > TailChars
    /\ p[1].stdout[1].ch \in Whitespace
    /\ rle_len(logFile[1].body) > TailChars

\* C10: the stages run in the order column resolution, document-source write,
\* pass 1, pass 2, confirmation: nothing is written or compiled unless the
\* columns resolved, the compiler runs only after the source is written, and the
\* confirmation is printed only after two passes that returned zero, in a run
\* that raised nothing; a raised error ends the run.
C10_StagesInOrder ==
    /\ (cols = None \/ (cols # None /\ ~cols[1].ok)) => (tex = None /\ calls = <<>> /\ ~printed)
    /\ (cols # None /\ ~cols[1].ok) => (pc = "failed" /\ raised # None)
    /\ tex = None => calls = <<>>
    /\ \A i \in 1..Len(calls) : calls[i].run_no = i
    /\ printed => (BothPassesZero /\ raised = None /\ tex # None /\ logFile = None)
    /\ raised # None => (~printed /\ pc = "failed")
    /\ pc = "failed" => raised # None

C10_Witness ==
    /\ pc = "failed"
    /\ cols # None /\ ~cols[1].ok
    /\ raised = Some(other_error("ValueError"))
    /\ tex = None /\ calls = <<>> /\ ~printed

(***************************************************************************)
(* Properties of pick_columns, checked under SpecColumns.  The names are   *)
(* those of the frame once pick_columns has trimmed them (line 32).        *)
(***************************************************************************)
Picked == cols # None

\* The indices of the names that match a role's rule, case ignored.
PositionMatches(names) == {i \in 1..Len(names) : is_position(lower(names[i]))}
ShearMatches(names)    == {i \in 1..Len(names) : is_shear(lower(names[i]))}
MomentMatches(names)   == {i \in 1..Len(names) : is_moment(lower(names[i]))}

First(S) == CHOOSE i \in S : \A j \in S : i <= j

\* C4: pick_columns returns a mapping binding all three roles when each role has
\* a matching name, and fails with the column-detection error (naming the
\* columns found) when some role has none.
C4_ResolvesIffAllRolesMatch ==
    Picked =>
        LET names == df[1].columns
            all3 == /\ PositionMatches(names) # {}
                    /\ ShearMatches(names) # {}
                    /\ MomentMatches(names) # {}
        IN /\ cols[1].ok = all3
           /\ cols[1].ok =>
                 /\ cols[1].pos \in {names[i] : i \in PositionMatches(names)}
                 /\ cols[1].shear \in {names[i] : i \in ShearMatches(names)}
                 /\ cols[1].moment \in {names[i] : i \in MomentMatches(names)}
                 /\ raised = None
           /\ ~cols[1].ok =>
                 /\ cols[1].error = "ValueError" /\ cols[1].found = names
                 /\ raised = Some(other_error("ValueError"))

C4_Witness ==
    /\ Picked /\ cols[1].ok
    /\ cols[1].pos = <<"D","I","S","T","A","N","C","E">>
    /\ cols[1].shear = n_Both /\ cols[1].moment = n_Moment
    /\ df[1].columns = <<n_Moment, n_Both, cols[1].pos>>

ExampleColumns == <<n_DistM, n_Shear, n_BM>>

\* C5 as stated: "Dist (m)", "Shear Force (kN)", "BM(kNm)" resolve to Position,
\* Shear and Moment, and "A", "B", "C" fail resolution.
C5_Original ==
    Picked =>
        /\ df[1].columns = ExampleColumns =>
              /\ cols[1].ok
              /\ cols[1].pos = n_DistM /\ cols[1].shear = n_Shear /\ cols[1].moment = n_BM
        /\ df[1].columns = <<n_A, n_B, n_C>> => ~cols[1].ok

\* C5 as amended: "Dist (m)", "Shear Force (kN)", "BM(kNm)" fail resolution, only
\* the Shear role finding a match ("Shear Force (kN)"), and "A", "B", "C" fail
\* resolution with no role matched.
C5_ExampleFailsResolution ==
    Picked =>
        /\ df[1].columns = ExampleColumns =>
              /\ ~cols[1].ok /\ cols[1].found = ExampleColumns
              /\ pick_loop(df[1].columns, 1, [pos |-> None, shear |-> None, moment |-> None])
                    = [pos |-> None, shear |-> Some(n_Shear), moment |-> None]
        /\ df[1].columns = <<n_A, n_B, n_C>> =>
              /\ ~cols[1].ok
              /\ pick_loop(df[1].columns, 1, [pos |-> None, shear |-> None, moment |-> None])
                    = [pos |-> None, shear |-> None, moment |-> None]

C5_Witness ==
    /\ Picked /\ df[1].columns = ExampleColumns
    /\ ~cols[1].ok /\ pc = "failed"

\* C9: each role is bound to the first name, in column order, that matches the
\* role's rule, whatever matches later and whatever the other roles are bound
\* to; a name that is the first match of two roles is bound to both.
C9_FirstMatchWinsEachRole ==
    Picked =>
        LET names == df[1].columns
            st == pick_loop(names, 1, [pos |-> None, shear |-> None, moment |-> None])
            bound(S) == IF S = {} THEN None ELSE Some(names[First(S)])
        IN /\ st.pos = bound(PositionMatches(names))
           /\ st.shear = bound(ShearMatches(names))
           /\ st.moment = bound(MomentMatches(names))
           /\ cols[1].ok =>
                 /\ cols[1].pos = names[First(PositionMatches(names))]
                 /\ cols[1].shear = names[First(ShearMatches(names))]
                 /\ cols[1].moment = names[First(MomentMatches(names))]

C9_Witness ==
    /\ Picked /\ cols[1].ok
    /\ df[1].columns = <<n_Dist, n_Both, n_Position>>
    /\ cols[1].pos = n_Dist
    /\ cols[1].shear = n_Both /\ cols[1].moment = n_Both

(***************************************************************************)
(* Properties of sfd_plot and bmd_plot, checked under SpecPlots.           *)
(***************************************************************************)
\* The (position, y) pairs of the frame's rows, in input order.
InputPairs(y_col) ==
    [i \in 1..Len(df[1].rows) |->
        <<cell(df[1], df[1].rows[i], cols[1].pos), cell(df[1], df[1].rows[i], y_col)>>]

Count(s, e) == Cardinality({i \in 1..Len(s) : s[i] = e})

IsPermutation(s, t) ==
    /\ Len(s) = Len(t)
    /\ \A e \in Range(s) \cup Range(t) : Count(s, e) = Count(t, e)

NonDecreasingX(coords) ==
    \A i \in 1..(Len(coords) - 1) : coords[i][1] <= coords[i + 1][1]

RawMin(y_col) == col_min(df[1], df[1].rows, y_col)
RawMax(y_col) == col_max(df[1], df[1].rows, y_col)

\* C6 as stated: the moment diagram's bounds satisfy yMin <= 0 <= yMax.
C6_ZeroInMomentRange ==
    bmd # None => (bmd[1].ymin <= 0 /\ 0 <= bmd[1].ymax)

\* C7: in both diagrams the padding is max(5.0, 0.12 * (|yMinRaw| + |yMaxRaw|))
\* and at least 5.0; the moment diagram's lower bound is min(0, yMinRaw - pad)
\* and at most 0.  (Hundredths: 5.0 is 500.)
C7_PaddingAndMomentFloor ==
    /\ sfd # None =>
          LET lo == RawMin(cols[1].shear)
              hi == RawMax(cols[1].shear)
              s == 12 * (Abs(lo) + Abs(hi))
          IN /\ sfd[1].pad >= 500
             /\ sfd[1].pad >= s
             /\ sfd[1].pad \in {500, s}
             /\ sfd[1].ymin = 100 * lo - sfd[1].pad
             /\ sfd[1].ymax = 100 * hi + sfd[1].pad
    /\ bmd # None =>
          LET lo == RawMin(cols[1].moment)
              hi == RawMax(cols[1].moment)
              s == 12 * (Abs(lo) + Abs(hi))
          IN /\ bmd[1].pad >= 500
             /\ bmd[1].pad >= s
             /\ bmd[1].pad \in {500, s}
             /\ bmd[1].ymin <= 0
             /\ bmd[1].ymin <= 100 * lo - bmd[1].pad
             /\ bmd[1].ymin \in {0, 100 * lo - bmd[1].pad}

C7_Witness ==
    /\ bmd # None
    /\ cols[1].moment # cols[1].pos
    /\ \A i \in 1..Len(df[1].rows) : cell(df[1], df[1].rows[i], cols[1].moment) > 0
    /\ 100 * RawMin(cols[1].moment) - bmd[1].pad > 0
    /\ bmd[1].pad > 500
    /\ bmd[1].ymin = 0

\* C8: the series of each diagram has one point per row, is a permutation of
\* the input (position, y) pairs (duplicates kept), and has non-decreasing x.
C8_SeriesIsSortedPermutation ==
    /\ sfd # None =>
          /\ Len(sfd[1].coords) = Len(df[1].rows)
          /\ IsPermutation(sfd[1].coords, InputPairs(cols[1].shear))
          /\ NonDecreasingX(sfd[1].coords)
    /\ bmd # None =>
          /\ Len(bmd[1].coords) = Len(df[1].rows)
          /\ IsPermutation(bmd[1].coords, InputPairs(cols[1].moment))
          /\ NonDecreasingX(bmd[1].coords)

C8_Witness ==
    /\ sfd # None /\ bmd # None
    /\ cols[1].pos = c_x /\ cols[1].shear = c_y /\ cols[1].moment = c_y
    /\ df[1].rows = <<<<1, 50>>, <<0, 0>>, <<1, -6>>>>
    /\ sfd[1].coords = <<<<0, 0>>, <<1, -6>>, <<1, 50>>>>
    /\ bmd[1].coords = <<<<0, 0>>, <<1, 50>>, <<1, -6>>>>

====
